---------------------------- MODULE Spec2Model ----------------------------
(***************************************************************************)
(* Model of backend/backend/metric.py (class Metrics): the sleep metrics   *)
(* derived from a sequence of classified sleep stages and a bedtime.       *)
(*                                                                         *)
(* Conventions.                                                            *)
(*  - A NumPy array of labels is a TLA+ sequence (1-based); the indices    *)
(*    that np.where returns are kept 0-based, as in the code.              *)
(*  - Python's None is the empty tuple None == <<>>, a present value v is  *)
(*    Some(v) == <<v>>, so that both compare without a type error.         *)
(*  - The float k / n of sleepEfficiency is the exact fraction <<k, n>>.   *)
(*  - The array handed to the constructor is stored by reference           *)
(*    (metric.py:9): the variable sleep_stages is that one array, seen by  *)
(*    the caller and by the object alike.                                  *)
(***************************************************************************)
EXTENDS Integers, Sequences, FiniteSets, TLC

VARIABLES
    pc,            \* "new": not constructed, "built": __init__ returned, "raised": __init__ raised
    sleep_stages,  \* the caller's array, aliased by self.sleep_stages
    bedtime,       \* the caller's bedtime variable
    self,          \* the attributes __init__ stored on the object
    report,        \* the mapping the latest read of .report returned
    writes         \* number of in-place writes the caller made after construction

vars == <<pc, sleep_stages, bedtime, self, report, writes>>

---------------------------------------------------------------------------
(* Bounds of the model *)

MaxLen == 4

MaxWrites == 1

Bedtimes == {0, 45}

---------------------------------------------------------------------------
(* classification.config.constants, imported at metric.py:4 *)

SleepStage == <<"W", "N1", "N2", "N3", "REM">>

EPOCH_DURATION == 30

WName == "W"

REMName == "REM"

\* A label that SleepStage does not hold.
UnknownLabel == "X"

Range(f) == {f[i] : i \in DOMAIN f}

Labels == Range(SleepStage) \cup {UnknownLabel}

SeqsUpTo(S, n) == UNION {[1..k -> S] : k \in 0..n}

Inputs == SeqsUpTo(Labels, MaxLen)

---------------------------------------------------------------------------
(* Python values *)

None == <<>>

Some(v) == <<v>>

Val(x) == x[1]

NoObject == <<>>

NoReport == <<>>

RECURSIVE SumOver(_, _)
SumOver(f, D) ==
    IF D = {} THEN 0
    ELSE LET k == CHOOSE k \in D : TRUE IN f[k] + SumOver(f, D \ {k})

\* sum(d.values()) of a dict
SumValues(d) == SumOver(d, DOMAIN d)

\* Mutant of Counter: every distinct item counted once.
CounterOncePerItem(items) == [k \in Range(items) |-> 1]

\* collections.Counter over the items of a sequence
Counter(items) ==
    [k \in Range(items) |-> Cardinality({i \in DOMAIN items : items[i] = k})]

\* np.unique: the distinct values (only its length and its single element are used)
Unique(a) == Range(a)

\* np.where(mask)[0]: the 0-based indices where mask holds, ascending
Where(mask) ==
    LET F[i \in 0..Len(mask)] ==
            IF i = 0 THEN <<>>
            ELSE IF mask[i] THEN Append(F[i - 1], i - 1) ELSE F[i - 1]
    IN  F[Len(mask)]

Last(s) == s[Len(s)]

SetMaxLen(S) == CHOOSE x \in S : \A y \in S : y <= x

---------------------------------------------------------------------------
(* Metrics.__init__ and the methods it calls *)

\* Mutant of HasSlept: the test on the single label inverted.
HasSleptInverted(a) ==
    \/ Cardinality(Unique(a)) # 1
    \/ (CHOOSE u \in Unique(a) : TRUE) = WName

HasSlept(a) ==
    \/ Cardinality(Unique(a)) # 1
    \/ (CHOOSE u \in Unique(a) : TRUE) # WName

IsSleepingStages(a) == [i \in DOMAIN a |-> a[i] # WName]

IsLastStageSleep(a) == Last(a) # WName

\* Mutant of GetLatencyOfStage: 0 instead of None when the stage never occurs.
GetLatencyOfStageZero(sequence_is_stage) ==
    LET epochs_of_stage_of_interest == Where(sequence_is_stage)
    IN  IF Len(epochs_of_stage_of_interest) = 0
        THEN Some(0)
        ELSE Some(epochs_of_stage_of_interest[1] * EPOCH_DURATION)

GetLatencyOfStage(sequence_is_stage) ==
    LET epochs_of_stage_of_interest == Where(sequence_is_stage)
    IN  IF Len(epochs_of_stage_of_interest) = 0
        THEN None
        ELSE Some(epochs_of_stage_of_interest[1] * EPOCH_DURATION)

\* Mutant of InitializeSleepOffset: the offset at the start of the last sleep epoch.
InitializeSleepOffsetNoPlusOne(has_slept, sleep_indexes, a, b) ==
    IF has_slept
    THEN LET sleep_nb_epochs ==
                 IF Len(sleep_indexes) # 0 THEN Last(sleep_indexes) ELSE Len(a)
         IN  Some(sleep_nb_epochs * EPOCH_DURATION + b)
    ELSE None

InitializeSleepOffset(has_slept, sleep_indexes, a, b) ==
    IF has_slept
    THEN LET sleep_nb_epochs ==
                 IF Len(sleep_indexes) # 0 THEN Last(sleep_indexes) + 1 ELSE Len(a)
         IN  Some(sleep_nb_epochs * EPOCH_DURATION + b)
    ELSE None

InitializeSleepLatency(is_sleeping_stages) == GetLatencyOfStage(is_sleeping_stages)

InitializeRemLatency(has_slept, a, sleep_latency) ==
    IF has_slept
    THEN LET bedtime_to_rem_duration ==
                 GetLatencyOfStage([i \in DOMAIN a |-> a[i] = REMName])
         IN  IF bedtime_to_rem_duration # None
             THEN Some(Val(bedtime_to_rem_duration) - Val(sleep_latency))
             ELSE None
    ELSE None

\* zip(a[:-1], a[1:])
ConsecutiveStages(a) == [i \in 1..(Len(a) - 1) |-> <<a[i], a[i + 1]>>]

OccurencesByTransition(a) ==
    LET consecutive_stages_occurences == Counter(ConsecutiveStages(a))
    IN  [cs \in {k \in DOMAIN consecutive_stages_occurences : k[1] # k[2]}
            |-> consecutive_stages_occurences[cs]]

AwakeningsOccurences(a) ==
    LET occurences_by_transition == OccurencesByTransition(a)
    IN  [ts \in {k \in DOMAIN occurences_by_transition :
                    k[1] # WName /\ k[2] = WName}
            |-> occurences_by_transition[ts]]

\* Mutant of InitializeTransitionBasedMetrics: the end of the recording counted
\* as an awakening but not as a stage shift.
InitializeTransitionBasedMetricsAwakeningOnly(a, is_last_stage_sleep, has_slept) ==
    LET nb_stage_shifts == SumValues(OccurencesByTransition(a))
        nb_awakenings == SumValues(AwakeningsOccurences(a))
        end == IF is_last_stage_sleep /\ has_slept THEN 1 ELSE 0
    IN  [stage_shifts |-> nb_stage_shifts,
         awakenings |-> nb_awakenings + end]

InitializeTransitionBasedMetrics(a, is_last_stage_sleep, has_slept) ==
    LET nb_stage_shifts == SumValues(OccurencesByTransition(a))
        nb_awakenings == SumValues(AwakeningsOccurences(a))
        end == IF is_last_stage_sleep /\ has_slept THEN 1 ELSE 0
    IN  [stage_shifts |-> nb_stage_shifts + end,
         awakenings |-> nb_awakenings + end]

\* The attributes of the object once __init__ has returned (a non-empty).
MetricsInit(a, b) ==
    LET has_slept == HasSlept(a)
        is_sleeping_stages == IsSleepingStages(a)
        sleep_indexes == Where(is_sleeping_stages)
        is_last_stage_sleep == IsLastStageSleep(a)
        sleep_offset == InitializeSleepOffset(has_slept, sleep_indexes, a, b)
        sleep_latency == InitializeSleepLatency(is_sleeping_stages)
        rem_latency == InitializeRemLatency(has_slept, a, sleep_latency)
        tr == InitializeTransitionBasedMetrics(a, is_last_stage_sleep, has_slept)
    IN  [bedtime |-> b,
         has_slept |-> has_slept,
         is_sleeping_stages |-> is_sleeping_stages,
         sleep_indexes |-> sleep_indexes,
         is_last_stage_sleep |-> is_last_stage_sleep,
         sleep_offset |-> sleep_offset,
         sleep_latency |-> sleep_latency,
         rem_latency |-> rem_latency,
         stage_shifts |-> tr.stage_shifts,
         awakenings |-> tr.awakenings]

---------------------------------------------------------------------------
(* The properties evaluated at each read of .report; s is the object, a   *)
(* the array self.sleep_stages refers to at the time of the read.          *)

SleepOnset(s) ==
    IF ~s.has_slept THEN None ELSE Some(Val(s.sleep_latency) + s.bedtime)

SleepTime(s) ==
    IF ~s.has_slept THEN 0 ELSE Val(s.sleep_offset) - Val(SleepOnset(s))

EfficientSleepTime(s) == Len(s.sleep_indexes) * EPOCH_DURATION

WakeAfterSleepOnset(s) ==
    IF ~s.has_slept THEN 0 ELSE SleepTime(s) - EfficientSleepTime(s)

SleepEfficiency(s, a) == <<Len(s.sleep_indexes), Len(a)>>

\* Mutant of WakeAfterSleepOffset: the last sleep epoch counted as wake.
WakeAfterSleepOffsetOffByOne(s, a) ==
    IF ~s.has_slept THEN 0
    ELSE LET wake_after_sleep_offset_nb_epochs ==
                 IF ~s.is_last_stage_sleep
                 THEN Len(a) - Last(s.sleep_indexes)
                 ELSE 0
         IN  wake_after_sleep_offset_nb_epochs * EPOCH_DURATION

WakeAfterSleepOffset(s, a) ==
    IF ~s.has_slept THEN 0
    ELSE LET wake_after_sleep_offset_nb_epochs ==
                 IF ~s.is_last_stage_sleep
                 THEN Len(a) - Last(s.sleep_indexes) - 1
                 ELSE 0
         IN  wake_after_sleep_offset_nb_epochs * EPOCH_DURATION

\* Mutant of RemOnset: the absolute time of the first REM epoch.
RemOnsetAbsolute(s) ==
    IF s.rem_latency = None THEN None
    ELSE Some(Val(s.rem_latency) + Val(s.sleep_latency) + s.bedtime)

RemOnset(s) ==
    IF s.rem_latency = None THEN None ELSE Some(Val(s.rem_latency) + s.bedtime)

\* f"{stage.upper()}Time": the stage names are upper case already
StageKey(stage) == stage \o "Time"

StageKeys == {StageKey(stage) : stage \in Range(SleepStage)}

\* Mutant of GetTimePassed: the number of epochs, not their duration.
GetTimePassedInEpochs(nb_epoch_passed_by_stage, stage) ==
    IF stage \in DOMAIN nb_epoch_passed_by_stage
    THEN nb_epoch_passed_by_stage[stage]
    ELSE 0

GetTimePassed(nb_epoch_passed_by_stage, stage) ==
    IF stage \in DOMAIN nb_epoch_passed_by_stage
    THEN EPOCH_DURATION * nb_epoch_passed_by_stage[stage]
    ELSE 0

TimePassedInStage(a) ==
    LET nb_epoch_passed_by_stage == Counter(a)
    IN  [key \in StageKeys |->
            GetTimePassed(nb_epoch_passed_by_stage,
                          CHOOSE stage \in Range(SleepStage) : StageKey(stage) = key)]

\* The np.int64 -> int loop of metric.py:40-43 keeps every value.
Report(s, a) ==
    [sleepOffset |-> s.sleep_offset,
     sleepLatency |-> s.sleep_latency,
     remLatency |-> s.rem_latency,
     awakenings |-> s.awakenings,
     stageShifts |-> s.stage_shifts,
     sleepTime |-> SleepTime(s),
     WASO |-> WakeAfterSleepOnset(s),
     sleepEfficiency |-> SleepEfficiency(s, a),
     efficientSleepTime |-> EfficientSleepTime(s),
     wakeAfterSleepOffset |-> WakeAfterSleepOffset(s, a),
     sleepOnset |-> SleepOnset(s),
     remOnset |-> RemOnset(s)] @@ TimePassedInStage(a)

---------------------------------------------------------------------------
(* The state machine *)

Init ==
    /\ pc = "new"
    /\ sleep_stages \in Inputs
    /\ bedtime \in Bedtimes
    /\ self = NoObject
    /\ report = NoReport
    /\ writes = 0

\* Metrics(sleep_stages, bedtime). On an empty array self.sleep_stages[-1]
\* (metric.py:15) raises IndexError and no object is returned.
Construct ==
    /\ pc = "new"
    /\ IF Len(sleep_stages) = 0
       THEN /\ pc' = "raised"
            /\ self' = self
       ELSE /\ pc' = "built"
            /\ self' = MetricsInit(sleep_stages, bedtime)
    /\ UNCHANGED <<sleep_stages, bedtime, report, writes>>

\* metrics.report
ReadReport ==
    /\ pc = "built"
    /\ report' = Report(self, sleep_stages)
    /\ UNCHANGED <<pc, sleep_stages, bedtime, self, writes>>

\* The widest label of the array: a NumPy string array stores at most the
\* width it was created with, and np.array(list) creates it this wide.
ItemWidth(a) == SetMaxLen({Len(a[i]) : i \in DOMAIN a})

\* The caller writes one element of the array it passed in: sleep_stages[i] = label,
\* with a label that fits the array's item width (a wider one would be cut).
CallerWritesStage ==
    /\ pc = "built"
    /\ writes < MaxWrites
    /\ \E i \in DOMAIN sleep_stages, label \in Labels :
          /\ label # sleep_stages[i]
          /\ Len(label) <= ItemWidth(sleep_stages)
          /\ sleep_stages' = [sleep_stages EXCEPT ![i] = label]
    /\ writes' = writes + 1
    /\ UNCHANGED <<pc, bedtime, self, report>>

\* The caller rebinds its own bedtime variable (an int is immutable)
CallerRebindsBedtime ==
    /\ pc = "built"
    /\ \E b \in Bedtimes \ {bedtime} : bedtime' = b
    /\ UNCHANGED <<pc, sleep_stages, self, report, writes>>

Next == Construct \/ ReadReport

Spec == Init /\ [][Next]_vars

NextAlias == Construct \/ ReadReport \/ CallerWritesStage \/ CallerRebindsBedtime

SpecAlias == Init /\ [][NextAlias]_vars

---------------------------------------------------------------------------
(* Vocabulary of the properties, defined on the input itself (0-based      *)
(* epoch indices) and independently of the operators above.                *)

N == Len(sleep_stages)

EpochIdx == 0..(N - 1)

StageAt(i) == sleep_stages[i + 1]

SleepIdx == {i \in EpochIdx : StageAt(i) # "W"}

RemIdx == {i \in EpochIdx : StageAt(i) = "REM"}

K == Cardinality(SleepIdx)

SetMin(S) == CHOOSE x \in S : \A y \in S : x <= y

SetMax(S) == CHOOSE x \in S : \A y \in S : y <= x

FirstSleepIdx == SetMin(SleepIdx)

LastSleepIdx == SetMax(SleepIdx)

AllWake == N >= 1 /\ \A i \in EpochIdx : StageAt(i) = "W"

AllKnown == \A i \in EpochIdx : StageAt(i) \in {"W", "N1", "N2", "N3", "REM"}

LastIsWake == StageAt(N - 1) = "W"

\* A report has been read from a constructed object.
HasReport == pc = "built" /\ report # NoReport

\* Adjacent pairs that differ, and those that go from a sleep stage to wake.
ShiftPositions == {i \in 0..(N - 2) : StageAt(i) # StageAt(i + 1)}

AwakeningPositions == {i \in 0..(N - 2) : StageAt(i) # "W" /\ StageAt(i + 1) = "W"}

EndAdjustment == IF LastIsWake THEN 0 ELSE 1

---------------------------------------------------------------------------
\* C1: for every non-empty all-wake sequence and any bedtime, the report read
\* from the constructed object has hasSlept false, sleepOnset, remOnset,
\* sleepOffset, sleepLatency and remLatency null, sleepTime, WASO and
\* wakeAfterSleepOffset 0, and sleepEfficiency 0.
C1_AllWakeReport ==
    (HasReport /\ AllWake) =>
        /\ self.has_slept = FALSE
        /\ report.sleepOnset = None
        /\ report.remOnset = None
        /\ report.sleepOffset = None
        /\ report.sleepLatency = None
        /\ report.remLatency = None
        /\ report.sleepTime = 0
        /\ report.WASO = 0
        /\ report.wakeAfterSleepOffset = 0
        /\ report.sleepEfficiency[1] = 0
        /\ report.sleepEfficiency[2] = N

C1_Witness == HasReport /\ AllWake /\ N = 3 /\ bedtime = 45

\* C2: stageShifts is the number of positions whose two adjacent epochs differ
\* (once per occurrence) and awakenings the number of positions going from a
\* non-wake epoch to a wake epoch, each plus 1 exactly when the last epoch is
\* not wake; the single epoch [N2] gives stageShifts = awakenings = 1.
C2_TransitionCounts ==
    HasReport =>
        /\ report.stageShifts = Cardinality(ShiftPositions) + EndAdjustment
        /\ report.awakenings = Cardinality(AwakeningPositions) + EndAdjustment
        /\ (sleep_stages = <<"N2">> =>
               report.stageShifts = 1 /\ report.awakenings = 1)

\* The pair (W, N2) occurs at two positions and the recording ends asleep.
C2_Witness ==
    /\ HasReport
    /\ sleep_stages = <<"W", "N2", "W", "N2">>
    /\ report.stageShifts = 4
    /\ report.awakenings = 2

\* C3: an empty sequence, or one holding a label outside the known stage set,
\* is rejected at construction: no object is built and no report is produced.
C3_InvalidInputRejected ==
    (N = 0 \/ ~AllKnown) => (pc # "built" /\ report = NoReport)

\* C4: once a report has been read, every later read returns the same mapping,
\* whatever the caller did in between to the array or the bedtime it passed in.
C4_ReadsAgree ==
    [][(report # NoReport /\ report' # NoReport) => report' = report]_vars

\* C5: when every label is a known stage, each <STAGE>Time of the report is
\* epochDuration times the number of epochs with that label (0 for an absent
\* stage) and the <STAGE>Time values add up to n x epochDuration.
C5_StageTimes ==
    (HasReport /\ AllKnown) =>
        /\ \A st \in {"W", "N1", "N2", "N3", "REM"} :
              report[st \o "Time"] =
                  30 * Cardinality({i \in EpochIdx : StageAt(i) = st})
        /\ report["WTime"] + report["N1Time"] + report["N2Time"]
              + report["N3Time"] + report["REMTime"] = N * 30

\* N1 and N3 do not occur, N2 occurs twice.
C5_Witness ==
    /\ HasReport
    /\ sleep_stages = <<"W", "N2", "N2", "REM">>
    /\ report["N2Time"] = 60
    /\ report["N3Time"] = 0

\* C6: remLatency is (first REM index - first non-wake index) x epochDuration
\* when there is a REM epoch and null otherwise; remOnset is null exactly when
\* remLatency is, and otherwise remLatency + bedtime, which is
\* bedtime + first-REM-elapsed - sleepLatency and not bedtime + first-REM-elapsed.
C6_RemLatencyAndOnset ==
    HasReport =>
        /\ (RemIdx # {} =>
               report.remLatency = Some((SetMin(RemIdx) - FirstSleepIdx) * 30))
        /\ ((RemIdx = {} \/ SleepIdx = {}) => report.remLatency = None)
        /\ (report.remOnset = None <=> report.remLatency = None)
        /\ (report.remLatency # None =>
               /\ report.remOnset = Some(Val(report.remLatency) + bedtime)
               /\ report.remOnset =
                      Some(bedtime + SetMin(RemIdx) * 30 - Val(report.sleepLatency))
               /\ (Val(report.sleepLatency) > 0 =>
                      report.remOnset # Some(bedtime + SetMin(RemIdx) * 30)))

\* Sleep starts at epoch 1 and REM at epoch 2: remLatency 30, remOnset 45 + 30.
C6_Witness ==
    /\ HasReport
    /\ sleep_stages = <<"W", "N2", "REM">>
    /\ bedtime = 45
    /\ report.remLatency = Some(30)
    /\ report.remOnset = Some(75)

\* C7: when hasSlept, sleepTime = WASO + efficientSleepTime and WASO is
\* epochDuration times the number of wake epochs strictly between the first and
\* the last non-wake epoch; always WASO >= 0 and sleepTime >= efficientSleepTime.
C7_WasoIdentity ==
    HasReport =>
        /\ (self.has_slept =>
               /\ report.sleepTime = report.WASO + report.efficientSleepTime
               /\ report.WASO =
                      30 * Cardinality({i \in EpochIdx :
                              /\ FirstSleepIdx < i
                              /\ i < LastSleepIdx
                              /\ StageAt(i) = "W"}))
        /\ report.WASO >= 0
        /\ report.sleepTime >= report.efficientSleepTime

C7_Witness ==
    /\ HasReport
    /\ sleep_stages = <<"W", "N2", "W", "N1">>
    /\ report.WASO = 30
    /\ report.sleepTime = 90

\* C8: awakenings <= stageShifts in every report, the end-of-recording
\* adjustment included.
C8_AwakeningsAtMostShifts ==
    HasReport => report.awakenings <= report.stageShifts

\* A recording that ends asleep, so that both counts got the adjustment.
C8_Witness ==
    /\ HasReport
    /\ ~LastIsWake
    /\ report.awakenings = 2
    /\ report.stageShifts = 3

\* C9: on a constructed object has_slept holds exactly when some epoch is not
\* wake, so the branch of the sleep offset for no sleep index is never taken
\* and a non-null sleepOffset is (lastSleepIdx + 1) x epochDuration + bedtime.
C9_HasSleptAndOffset ==
    pc = "built" =>
        /\ (self.has_slept <=> K >= 1)
        /\ ~(self.has_slept /\ Len(self.sleep_indexes) = 0)
        /\ (self.sleep_offset # None =>
               self.sleep_offset = Some((LastSleepIdx + 1) * 30 + bedtime))

C9_Witness ==
    /\ pc = "built"
    /\ sleep_stages = <<"W", "N1", "W">>
    /\ bedtime = 45
    /\ self.has_slept
    /\ self.sleep_offset = Some(105)

\* C10: when hasSlept, sleepLatency + sleepTime + wakeAfterSleepOffset is
\* n x epochDuration, sleepOffset + wakeAfterSleepOffset is bedtime +
\* n x epochDuration, wakeAfterSleepOffset is 0 exactly when the last epoch is
\* not wake and (n - lastSleepIdx - 1) x epochDuration otherwise, and the three
\* durations are functions of the sequence alone.
C10_DurationsPartition ==
    (HasReport /\ self.has_slept) =>
        /\ Val(report.sleepLatency) + report.sleepTime
              + report.wakeAfterSleepOffset = N * 30
        /\ Val(report.sleepOffset) + report.wakeAfterSleepOffset = bedtime + N * 30
        /\ (report.wakeAfterSleepOffset = 0 <=> ~LastIsWake)
        /\ (LastIsWake =>
               report.wakeAfterSleepOffset = (N - LastSleepIdx - 1) * 30)
        /\ report.sleepLatency = Some(FirstSleepIdx * 30)
        /\ report.sleepTime = (LastSleepIdx - FirstSleepIdx + 1) * 30

C10_Witness ==
    /\ HasReport
    /\ sleep_stages = <<"W", "N2", "W", "W">>
    /\ bedtime = 45
    /\ report.wakeAfterSleepOffset = 60
    /\ report.sleepTime = 30

=============================================================================
